---- MODULE Spec2Model ----
(***************************************************************************)
(* State-machine model of app.py (lesson/unit plan sharing, Flask +        *)
(* Postgres).  The persistent state is the database (users, lesson_plans,  *)
(* unit_plans, professor_student); each client carries a signed session    *)
(* cookie; every route handler is one action, except plan creation, whose  *)
(* two units of work (save_plan_record, ensure_professor_student_links)    *)
(* commit separately and are therefore two steps.                          *)
(***************************************************************************)
EXTENDS Integers, Sequences, FiniteSets, Bags, TLC

(* ------------------------------ bounds --------------------------------- *)
\* total number of plan rows (both tables together) the model lets exist
MaxPlans == 2

\* share lists a creation form may carry (ids as posted; any id can be posted)
ShareLists == {<< >>, <<2>>, <<2, 3>>}

\* ids of the users who submit creation forms (a student-teacher, a professor)
Creators == {1, 2}

\* plan documents a creation form may carry
PlanDocs == {"docA"}

\* passwords typed into the login form
Passwords == {"pw", "bad"}

\* plan rows the authentication specification lets exist
MaxAuthPlans == 1

\* units of work one request runs (dashboard: two lists; create: save, links)
MaxUnits == 2

\* bytes of a posted diagram file
MaxBytes == 2

\* share lists posted under the authentication specification: nobody, a
\* professor, a user who is no professor
ShareListsAny == {<< >>, <<2>>, <<1>>}

\* usernames typed into the signup form (one new, one taken)
SignupNames == {"eve", "alice"}

\* roles posted with the signup form (one valid, one not)
PostedRoles == {"professor", "root"}

(* --------------------------- program constants ------------------------- *)
\* Python None in an id position (guest id, absent row)
Null == 0

Tables == {"lesson_plans", "unit_plans"}

\* session.get("user") when the key is absent
NoUser == [id |-> Null, username |-> "", role |-> "none", is_guest |-> FALSE]

\* the identity continue_as_guest stores
GuestUser == [id |-> Null, username |-> "guest", role |-> "guest", is_guest |-> TRUE]

\* cur.fetchone() when no row matches, or the None returned on error
NoRecord == [id |-> Null, owner_id |-> Null, plan_data |-> "", shared_professors |-> << >>]

\* no signup request is between its existence check and its insert
NoSignup == [username |-> "", role |-> "", lookup |-> ""]

\* no creation request is between its two units of work
NoJob == [table |-> "", plan_id |-> Null, user |-> NoUser, share |-> << >>]

\* the users table the deployment starts with (rows created by earlier signups)
InitUsers ==
    << [username |-> "alice",   password_hash |-> <<"bcrypt", "pw">>, role |-> "student-teacher"],
       [username |-> "bob",     password_hash |-> <<"bcrypt", "pw">>, role |-> "professor"],
       [username |-> "charlie", password_hash |-> <<"bcrypt", "pw">>, role |-> "professor"],
       [username |-> "dana",    password_hash |-> <<"bcrypt", "pw">>, role |-> "admin"] >>

VARIABLES
    users,      \* table users: row i has id i
    plans,      \* table name -> sequence of plan rows (row i has id i)
    links,      \* table professor_student, a bag of <<professor_id, student_id>>
    session,    \* session["user"] of the cookie the next request carries
    inflight,   \* the creation request that committed its plan, links pending
    resp,       \* the response most recently returned, with what its request did
    signup,     \* the signup request past its existence check, insert pending
    uow,        \* the unit of work db_cursor is running, step by step
    upload      \* a diagram upload: the posted file, the store, the outcome

vars == <<users, plans, links, session, inflight, resp, signup, uow, upload>>

(* ------------------------------ helpers -------------------------------- *)
Range(s) == {s[i] : i \in 1..Len(s)}

UserIds == 1..Len(users)

Usernames == {users[i].username : i \in UserIds}

\* the dict login/signup put in the session for users row i
IdentityOf(i) ==
    [id |-> i, username |-> users[i].username, role |-> users[i].role, is_guest |-> FALSE]

\* every value a session can hold
Identities == {NoUser, GuestUser} \cup {IdentityOf(i) : i \in UserIds}

PlanCount == Len(plans["lesson_plans"]) + Len(plans["unit_plans"])

\* bcrypt.checkpw(password, hashed)
verify_password(password, hashed) == hashed = <<"bcrypt", password>>

\* SELECT ... FROM users WHERE username = %s; None on error
get_user_by_username(username, dbok) ==
    IF dbok /\ \E i \in UserIds : users[i].username = username
    THEN CHOOSE i \in UserIds : users[i].username = username
    ELSE Null


(* --------------------------- session gate ------------------------------ *)
Routes == {"dashboard", "create_lesson_form", "create_unit_form",
           "create_lesson", "create_unit", "view_lesson_plan", "view_unit_plan"}

\* variant: the POST creation routes carry the decorator of their GET forms
AllowGuest_forms(route) ==
    route \in {"dashboard", "create_lesson_form", "create_unit_form",
               "create_lesson", "create_unit"}

\* the allow_guest argument each route passes to login_required
AllowGuest(route) == route \in {"dashboard", "create_lesson_form", "create_unit_form"}

\* variant: the guest test of the wrapper is missing
login_required_noguest(user, allow_guest) ==
    IF user = NoUser THEN "login_next" ELSE "proceed"

\* wrapper of login_required: which of its three returns is taken
login_required(user, allow_guest) ==
    IF user = NoUser THEN "login_next"
    ELSE IF user.is_guest /\ ~allow_guest THEN "login_guest"
    ELSE "proceed"

\* the table a plan route works on
TableOf(route) ==
    IF route \in {"create_lesson", "view_lesson_plan", "create_lesson_form"}
    THEN "lesson_plans" ELSE "unit_plans"

(* ----------------------------- responses ------------------------------- *)
\* a response, with the trace of what its request did (ran: calls of the
\* wrapped handler; fetched/checked/saved: calls of fetch_plan_record,
\* can_access_plan, save_plan_record; allowed: what can_access_plan returned)
BaseResp(route, plan_id, user) ==
    [route |-> route, plan_id |-> plan_id, user |-> user, kind |-> "none",
     status |-> 0, flash |-> "", next |-> << >>, ran |-> 0,
     fetched |-> FALSE, checked |-> FALSE, allowed |-> FALSE, saved |-> FALSE,
     data |-> "", lesson_rows |-> << >>, unit_rows |-> << >>]

\* redirect(url_for("login", next=request.path, message=...))
GateRedirect(route, plan_id, user, gate) ==
    [BaseResp(route, plan_id, user) EXCEPT
        !.kind = "redirect_login", !.status = 302, !.next = <<route, plan_id>>,
        !.flash = IF gate = "login_next" THEN "Please log in to continue."
                  ELSE "Guests cannot save or retrieve records."]

(* --------------------------- plan repository --------------------------- *)
\* SELECT ... FROM table p JOIN users u ON p.owner_id = u.id WHERE p.id = %s;
\* None when no row matches and when the unit of work raises
fetch_plan_record(table_name, plan_id, dbok) ==
    IF dbok /\ plan_id \in 1..Len(plans[table_name])
            /\ plans[table_name][plan_id].owner_id \in UserIds
    THEN plans[table_name][plan_id]
    ELSE NoRecord

\* the row INSERT INTO table (owner_id, plan_data, shared_professors) adds
save_plan_record(table_name, owner_id, plan_data, shared_professors) ==
    [id |-> Len(plans[table_name]) + 1, owner_id |-> owner_id,
     plan_data |-> plan_data, shared_professors |-> shared_professors]

\* variant: the insert replaces the owner's newest row (an upsert)
upsert_plan(rows, row) ==
    IF rows # << >> /\ rows[Len(rows)].owner_id = row.owner_id
    THEN [rows EXCEPT ![Len(rows)] = [row EXCEPT !.id = Len(rows)]]
    ELSE Append(rows, row)

\* the table after INSERT INTO table ... RETURNING id has committed
insert_plan(rows, row) == Append(rows, row)

\* variant: the list query honours the standing link, the record gate does not
list_where_linked(row, user) ==
    IF user.role = "admin" THEN TRUE
    ELSE IF user.role = "professor"
         THEN \/ row.owner_id = user.id
              \/ user.id \in Range(row.shared_professors)
              \/ BagIn(<<user.id, row.owner_id>>, links)
         ELSE row.owner_id = user.id

\* the WHERE clause list_plans_for_user builds for the user's role
list_where(row, user) ==
    IF user.role = "admin" THEN TRUE
    ELSE IF user.role = "professor"
         THEN row.owner_id = user.id \/ user.id \in Range(row.shared_professors)
         ELSE row.owner_id = user.id

\* rows of a table newest first (ORDER BY created_at DESC), filtered
RECURSIVE ListDesc(_, _, _)
ListDesc(table_name, user, n) ==
    IF n = 0 THEN << >>
    ELSE LET row == plans[table_name][n]
         IN (IF row.owner_id \in UserIds /\ list_where(row, user)
             THEN <<row.id>> ELSE << >>) \o ListDesc(table_name, user, n - 1)

\* ids of the summaries list_plans_for_user returns; [] for no user, a guest
\* and on error
list_plans_for_user(table_name, user, dbok) ==
    IF user = NoUser \/ user.is_guest THEN << >>
    ELSE IF ~dbok THEN << >>
    ELSE ListDesc(table_name, user, Len(plans[table_name]))

(* --------------------------- access evaluator -------------------------- *)
can_access_plan(record, user) ==
    IF record = NoRecord \/ user = NoUser \/ user.is_guest THEN FALSE
    ELSE IF user.role = "admin" THEN TRUE
    ELSE IF record.owner_id = user.id THEN TRUE
    ELSE IF user.role = "professor"
         THEN user.id \in Range(record.shared_professors)
         ELSE FALSE

(* ------------------------- relationship registry ----------------------- *)
\* INSERT INTO professor_student ... ON CONFLICT DO NOTHING
insert_link(reg, professor_id, student_id) ==
    IF BagIn(<<professor_id, student_id>>, reg) THEN reg
    ELSE reg (+) SetToBag({<<professor_id, student_id>>})

\* the for loop of ensure_professor_student_links, inside one unit of work
RECURSIVE ensure_links_loop(_, _, _)
ensure_links_loop(reg, student_id, professor_ids) ==
    IF professor_ids = << >> THEN reg
    ELSE ensure_links_loop(insert_link(reg, Head(professor_ids), student_id),
                           student_id, Tail(professor_ids))

\* the registry after ensure_professor_student_links; an exception of the
\* unit of work rolls it back and is swallowed
ensure_professor_student_links(reg, student_id, professor_ids, dbok) ==
    IF professor_ids = << >> THEN reg
    ELSE IF dbok THEN ensure_links_loop(reg, student_id, professor_ids)
    ELSE reg

\* variant: links are written for a creator of any role
links_wanted_any(user, professor_ids) == professor_ids # << >>

\* create_lesson / create_unit call ensure_professor_student_links for a
\* student-teacher only, and it returns at once for an empty list
links_wanted(user, professor_ids) ==
    user.role = "student-teacher" /\ professor_ids # << >>

\* SELECT 1 FROM professor_student WHERE professor_id=%s AND student_id=%s
is_professor_for_student(professor_id, student_id) ==
    BagIn(<<professor_id, student_id>>, links)


(* ------------------------------ handlers ------------------------------- *)
\* abort(code): raises werkzeug's HTTPException, a subclass of Exception
abort(r, code) == [r EXCEPT !.kind = "raised", !.status = code]

\* the except Exception clause of view_lesson_plan / view_unit_plan: whatever
\* the try body raised becomes a flashed error and a redirect to the dashboard
view_except(r, table_name) ==
    IF r.kind = "raised"
    THEN [r EXCEPT !.kind = "redirect_dashboard", !.status = 302,
                   !.flash = IF table_name = "lesson_plans"
                             THEN "Error loading lesson plan. Please try again."
                             ELSE "Error loading unit plan. Please try again."]
    ELSE r

\* variant: the try body renders the fetched record without the access check
view_body_nocheck(r, record, user, table_name) ==
    IF record = NoRecord
    THEN [r EXCEPT !.kind = "redirect_dashboard", !.status = 302,
                   !.flash = IF table_name = "lesson_plans"
                             THEN "Lesson plan not found." ELSE "Unit plan not found."]
    ELSE [r EXCEPT !.kind = "render", !.status = 200, !.data = record.plan_data]

\* the try body of view_lesson_plan / view_unit_plan after the fetch
view_body(r, record, user, table_name) ==
    IF record = NoRecord
    THEN [r EXCEPT !.kind = "redirect_dashboard", !.status = 302,
                   !.flash = IF table_name = "lesson_plans"
                             THEN "Lesson plan not found." ELSE "Unit plan not found."]
    ELSE IF ~can_access_plan(record, user)
         THEN abort([r EXCEPT !.checked = TRUE, !.allowed = FALSE], 403)
         ELSE [r EXCEPT !.checked = TRUE, !.allowed = TRUE, !.kind = "render",
                        !.status = 200, !.data = record.plan_data]

\* view_lesson_plan / view_unit_plan behind login_required()
view_plan(route, plan_id, user, dbok) ==
    LET gate == login_required(user, AllowGuest(route))
        table_name == TableOf(route)
        r0 == [BaseResp(route, plan_id, user) EXCEPT !.ran = 1, !.fetched = TRUE]
    IN IF gate # "proceed" THEN GateRedirect(route, plan_id, user, gate)
       ELSE view_except(
              view_body(r0, fetch_plan_record(table_name, plan_id, dbok), user, table_name),
              table_name)

\* GET /lesson/<id>, GET /unit/<id>
ViewPlan(route, plan_id, dbok) ==
    /\ resp' = view_plan(route, plan_id, session, dbok)
    /\ UNCHANGED <<users, plans, links, session, inflight, signup, uow, upload>>

\* GET /dashboard: the two list calls (each its own unit of work) and the page
Dashboard(dbok1, dbok2) ==
    LET user == session
        gate == login_required(user, AllowGuest("dashboard"))
    IN /\ resp' = IF gate # "proceed" THEN GateRedirect("dashboard", Null, user, gate)
                  ELSE [BaseResp("dashboard", Null, user) EXCEPT
                          !.ran = 1, !.kind = "render_dashboard", !.status = 200,
                          !.lesson_rows = list_plans_for_user("lesson_plans", user, dbok1),
                          !.unit_rows = list_plans_for_user("unit_plans", user, dbok2)]
       /\ UNCHANGED <<users, plans, links, session, inflight, signup, uow, upload>>

\* GET /create-lesson, GET /create-unit: the form with the professors to pick
CreateForm(route, dbok) ==
    LET user == session
        gate == login_required(user, AllowGuest(route))
    IN /\ resp' = IF gate # "proceed" THEN GateRedirect(route, Null, user, gate)
                  ELSE [BaseResp(route, Null, user) EXCEPT
                          !.ran = 1, !.kind = "render_form", !.status = 200]
       /\ UNCHANGED <<users, plans, links, session, inflight, signup, uow, upload>>

\* the success return of create_lesson / create_unit
CreateSuccess(route, plan_id, user) ==
    [BaseResp(route, plan_id, user) EXCEPT
        !.ran = 1, !.saved = TRUE, !.kind = "redirect_view", !.status = 302]

\* the except clause of create_lesson / create_unit
CreateFailure(route, user) ==
    [BaseResp(route, Null, user) EXCEPT
        !.ran = 1, !.saved = TRUE, !.kind = "redirect_form", !.status = 302,
        !.flash = IF route = "create_lesson"
                  THEN "Failed to save lesson plan. Please try again."
                  ELSE "Failed to save unit plan. Please try again."]

\* POST /create-lesson, POST /create-unit up to the commit of save_plan_record
\* (one creation request at a time is between its two units of work);
\* a student-teacher with a non-empty share list still has the unit of work
\* of ensure_professor_student_links ahead
CreatePlan(route, share, doc, dbok) ==
    LET user == session
        gate == login_required(user, AllowGuest(route))
        table_name == TableOf(route)
        row == save_plan_record(table_name, user.id, doc, share)
    IN /\ inflight = NoJob
       /\ session = NoUser \/ session.is_guest \/ session.id \in Creators
       /\ IF gate # "proceed"
          THEN /\ resp' = GateRedirect(route, Null, user, gate)
               /\ UNCHANGED <<plans, inflight>>
          ELSE IF ~dbok
          THEN /\ resp' = CreateFailure(route, user)
               /\ UNCHANGED <<plans, inflight>>
          ELSE /\ PlanCount < MaxPlans
               /\ plans' = [plans EXCEPT ![table_name] = insert_plan(@, row)]
               /\ IF links_wanted(user, share)
                  THEN /\ inflight' = [table |-> table_name, plan_id |-> row.id,
                                     user |-> user, share |-> share]
                       /\ UNCHANGED resp
                  ELSE /\ resp' = CreateSuccess(route, row.id, user)
                       /\ UNCHANGED inflight
       /\ UNCHANGED <<users, links, session, signup, uow, upload>>

\* the rest of the creation request: ensure_professor_student_links, then the
\* redirect to the plan view
CreateLinks(dbok) ==
    LET job == inflight
    IN /\ job # NoJob
       /\ links' = ensure_professor_student_links(links, job.user.id, job.share, dbok)
       /\ resp' = CreateSuccess(IF job.table = "lesson_plans" THEN "create_lesson"
                                ELSE "create_unit", job.plan_id, job.user)
       /\ inflight' = NoJob
       /\ UNCHANGED <<users, plans, session, signup, uow, upload>>

\* render_template("login.html", message=message, next_url=next_url)
LoginPage(sess, message) ==
    [BaseResp("login", Null, sess) EXCEPT
        !.ran = 1, !.kind = "render_login", !.status = 200, !.flash = message]

\* set_current_user(...) and redirect(next_url or url_for("dashboard"))
LoginRedirect(identity) ==
    [BaseResp("login", Null, identity) EXCEPT
        !.ran = 1, !.kind = "redirect_dashboard", !.status = 302]

\* the test of the posted fields at the head of the POST branch
FieldsMissing(username, password) == username = "" \/ password = ""

\* variant: an unknown username gets a message of its own
login_mode_leaky(username, password, dbok, sess) ==
    LET uid == get_user_by_username(username, dbok)
    IN IF FieldsMissing(username, password)
       THEN [session |-> sess,
             resp |-> LoginPage(sess, "Username and password are required.")]
       ELSE IF uid = Null
       THEN [session |-> sess, resp |-> LoginPage(sess, "Unknown username.")]
       ELSE IF ~verify_password(password, users[uid].password_hash)
       THEN [session |-> sess, resp |-> LoginPage(sess, "Invalid credentials.")]
       ELSE [session |-> IdentityOf(uid), resp |-> LoginRedirect(IdentityOf(uid))]

\* POST /login in login mode: the session it leaves and its response
login_mode(username, password, dbok, sess) ==
    LET uid == get_user_by_username(username, dbok)
    IN IF FieldsMissing(username, password)
       THEN [session |-> sess,
             resp |-> LoginPage(sess, "Username and password are required.")]
       ELSE IF uid = Null
       THEN [session |-> sess, resp |-> LoginPage(sess, "Invalid credentials.")]
       ELSE IF ~verify_password(password, users[uid].password_hash)
       THEN [session |-> sess, resp |-> LoginPage(sess, "Invalid credentials.")]
       ELSE [session |-> IdentityOf(uid), resp |-> LoginRedirect(IdentityOf(uid))]

\* POST /login, mode = login
Login(username, password, dbok) ==
    LET r == login_mode(username, password, dbok, session)
    IN /\ session' = r.session
       /\ resp' = r.resp
       /\ UNCHANGED <<users, plans, links, inflight, signup, uow, upload>>

\* bcrypt.hashpw(password, bcrypt.gensalt())
hash_password(password) == <<"bcrypt", password>>

\* variant: the posted role is stored as it came
signup_role_raw(role) == role

\* role if role in ("student-teacher", "professor", "admin") else "student-teacher"
signup_role(role) ==
    IF role \in {"student-teacher", "professor", "admin"} THEN role
    ELSE "student-teacher"

\* the unique constraint on users.username refuses the insert
UniqueViolation(username) == \E i \in UserIds : users[i].username = username

\* create_user and what the signup branch does with its result: the users
\* table, the session and the response. The insert raises when the database
\* fails and when the username is taken; both end in the same message
signup_insert(username, password, role, dbok, sess) ==
    IF ~dbok \/ UniqueViolation(username)
    THEN [users |-> users, session |-> sess,
          resp |-> LoginPage(sess, "Unable to create account. Please try again later.")]
    ELSE LET row == [username |-> username, password_hash |-> hash_password(password),
                     role |-> role]
             identity == [id |-> Len(users) + 1, username |-> username,
                          role |-> role, is_guest |-> FALSE]
         IN [users |-> Append(users, row), session |-> identity,
             resp |-> LoginRedirect(identity)]

\* POST /login in signup mode up to the existence check: a username that is
\* found is refused; otherwise (also when the lookup failed) create_user is
\* next; lookup notes why get_user_by_username returned None
SignupCheck(username, role, dbok) ==
    /\ signup = NoSignup
    /\ IF get_user_by_username(username, dbok) # Null
       THEN /\ resp' = LoginPage(session, "Username already exists.")
            /\ UNCHANGED signup
       ELSE /\ signup' = [username |-> username, role |-> signup_role(role),
                          lookup |-> IF dbok THEN "absent" ELSE "failed"]
            /\ UNCHANGED resp
    /\ UNCHANGED <<users, plans, links, session, inflight, uow, upload>>

\* the rest of the signup request: create_user, then the session and redirect
SignupInsert(dbok) ==
    LET r == signup_insert(signup.username, "pw", signup.role, dbok, session)
    IN /\ signup # NoSignup
       /\ users' = r.users
       /\ session' = r.session
       /\ resp' = r.resp
       /\ signup' = NoSignup
       /\ UNCHANGED <<plans, links, inflight, uow, upload>>

\* a whole signup request that runs while another one is between its existence
\* check and its insert
Signup(username, role, dbok1, dbok2) ==
    LET r == signup_insert(username, "pw", signup_role(role), dbok2, session)
    IN /\ signup # NoSignup
       /\ IF get_user_by_username(username, dbok1) # Null
          THEN /\ resp' = LoginPage(session, "Username already exists.")
               /\ UNCHANGED <<users, session>>
          ELSE /\ users' = r.users
               /\ session' = r.session
               /\ resp' = r.resp
       /\ UNCHANGED <<plans, links, inflight, signup, uow, upload>>

\* plan creation under the authentication specification
CreatePlanAuth(route, share, doc, dbok) ==
    /\ PlanCount < MaxAuthPlans
    /\ CreatePlan(route, share, doc, dbok)

\* POST /continue-as-guest
ContinueAsGuest ==
    /\ session' = GuestUser
    /\ resp' = [BaseResp("continue_as_guest", Null, GuestUser) EXCEPT
                  !.ran = 1, !.kind = "redirect_index", !.status = 302]
    /\ UNCHANGED <<users, plans, links, inflight, signup, uow, upload>>

\* GET /logout
Logout ==
    /\ session' = NoUser
    /\ resp' = [BaseResp("logout", Null, NoUser) EXCEPT
                  !.ran = 1, !.kind = "redirect_index", !.status = 302]
    /\ UNCHANGED <<users, plans, links, inflight, signup, uow, upload>>

(* ------------------------------ db_cursor ------------------------------ *)
\* the units of work of one request run one after the other; within a unit
\* pc is the statement db_cursor is about to run, exc is the exception on its
\* way to the caller ("" = none) and cause is the call that raised first
NoUnit ==
    [pc |-> "idle", units |-> 0, open |-> 0, acquired |-> 0, commits |-> 0,
     rollbacks |-> 0, closes |-> 0, body |-> "", wrote |-> FALSE,
     persisted |-> FALSE, exc |-> "", cause |-> "", close_raised |-> FALSE]

\* how the body of a with-block ends
BodyOutcomes == {"complete", "return", "raise"}

\* what conn.close() does: it closes the connection, or it raises, and then
\* the connection is closed or still open
CloseOutcomes == {"closed", "raised_closed", "raised_open"}

\* conn = None; conn = get_db_conn(): a new connection or RuntimeError
GetDbConn(ok) ==
    /\ uow.pc \in {"idle", "exit"}
    /\ uow.units < MaxUnits
    /\ uow' = [NoUnit EXCEPT
                 !.units = uow.units + 1,
                 !.open = uow.open + (IF ok THEN 1 ELSE 0),
                 !.close_raised = uow.close_raised,
                 !.acquired = IF ok THEN 1 ELSE 0,
                 !.pc = IF ok THEN "cursor" ELSE "finally",
                 !.exc = IF ok THEN "" ELSE "connect",
                 !.cause = IF ok THEN "" ELSE "connect"]
    /\ UNCHANGED <<users, plans, links, session, inflight, resp, signup, upload>>

\* cur = conn.cursor(...), before the inner try
ConnCursor(ok) ==
    /\ uow.pc = "cursor"
    /\ uow' = IF ok THEN [uow EXCEPT !.pc = "body"]
              ELSE [uow EXCEPT !.pc = "finally", !.exc = "cursor", !.cause = "cursor"]
    /\ UNCHANGED <<users, plans, links, session, inflight, resp, signup, upload>>

\* yield conn, cur: the body of the caller's with-block; a return inside the
\* block resumes the generator after the yield like a normal completion
Body(outcome, wrote) ==
    /\ uow.pc = "body"
    /\ uow' = IF outcome = "raise"
              THEN [uow EXCEPT !.pc = "rollback", !.body = outcome, !.wrote = wrote,
                               !.exc = "body", !.cause = "body"]
              ELSE [uow EXCEPT !.pc = "commit", !.body = outcome, !.wrote = wrote]
    /\ UNCHANGED <<users, plans, links, session, inflight, resp, signup, upload>>

\* a failed commit leaves the inner try without entering its except clause
commit_failed_norollback(u) ==
    [u EXCEPT !.commits = u.commits + 1, !.pc = "finally",
              !.exc = "commit", !.cause = "commit"]

\* a failed commit raises inside the inner try, so except Exception runs
commit_failed(u) ==
    [u EXCEPT !.commits = u.commits + 1, !.pc = "rollback",
              !.exc = "commit", !.cause = "commit"]

\* conn.commit()
ConnCommit(ok) ==
    /\ uow.pc = "commit"
    /\ uow' = IF ok
              THEN [uow EXCEPT !.commits = uow.commits + 1, !.pc = "finally",
                               !.persisted = uow.wrote]
              ELSE commit_failed(uow)
    /\ UNCHANGED <<users, plans, links, session, inflight, resp, signup, upload>>

\* except Exception: conn.rollback(); print; raise. When rollback raises, the
\* bare raise is not reached and rollback's exception goes to the caller
ConnRollback(ok) ==
    /\ uow.pc = "rollback"
    /\ uow' = [uow EXCEPT !.rollbacks = uow.rollbacks + 1, !.pc = "finally",
                          !.exc = IF ok THEN uow.exc ELSE "rollback"]
    /\ UNCHANGED <<users, plans, links, session, inflight, resp, signup, upload>>

\* a finally clause that only runs when nothing was raised
conn_to_close_on_success(u) == u.acquired = 1 /\ u.exc = ""

\* finally: if conn
conn_to_close(u) == u.acquired = 1

\* finally: if conn: try: conn.close() except Exception: print
ConnClose(outcome) ==
    /\ uow.pc = "finally"
    /\ IF conn_to_close(uow)
       THEN uow' = [uow EXCEPT
                      !.pc = "exit",
                      !.closes = uow.closes + 1,
                      !.open = IF outcome = "raised_open" THEN uow.open ELSE uow.open - 1,
                      !.close_raised = uow.close_raised \/ outcome # "closed"]
       ELSE /\ outcome = "closed"
            /\ uow' = [uow EXCEPT !.pc = "exit"]
    /\ UNCHANGED <<users, plans, links, session, inflight, resp, signup, upload>>

(* --------------------------- diagram upload ---------------------------- *)
\* ALLOWED_EXTENSIONS
ALLOWED_EXTENSIONS == {"png", "jpg", "jpeg", "gif", "svg"}

\* file names of a posted diagram, as their pieces between dots: "", "d",
\* "d.png", "d.PNG", "d.exe", "d.png.exe"
Filenames ==
    {<< >>, <<"d">>, <<"d", "png">>, <<"d", "PNG">>, <<"d", "exe">>,
     <<"d", "png", "exe">>}

\* str.lower() on the extensions above
lower(ext) == IF ext = "PNG" THEN "png" ELSE ext

\* byte values a posted file holds
Bytes == {0, 77, 255}

\* the files a form may post: every byte string of at most MaxBytes bytes
FileData == UNION {[1..n -> Bytes] : n \in 0..MaxBytes}

\* what s3_client.upload_fileobj does
UploadOutcomes == {"ok", "BotoCoreError", "ClientError", "other"}

\* no form posted
NoUpload ==
    [pc |-> "idle", present |-> FALSE, filename |-> << >>, data |-> << >>,
     storage |-> FALSE, outcome |-> "ok", consumed |-> 0,
     result |-> [kind |-> "none", mime |-> "", payload |-> << >>]]

\* a posted create-lesson form and the state of the object store: whether the
\* file field is among request.files, the file, whether storage is
\* configured, what the upload call does and how far it read the stream
UploadInputs ==
    {[NoUpload EXCEPT !.pc = "posted", !.present = pr, !.filename = fn,
                      !.data = d, !.storage = st, !.outcome = oc, !.consumed = n] :
        pr \in BOOLEAN, fn \in Filenames, d \in FileData, st \in BOOLEAN,
        oc \in UploadOutcomes, n \in 0..MaxBytes}

\* '.' in filename and filename.rsplit('.', 1)[1].lower() in ALLOWED_EXTENSIONS
allowed_file(filename) ==
    Len(filename) > 1 /\ lower(filename[Len(filename)]) \in ALLOWED_EXTENSIONS

\* the base64 alphabet
B64Chars ==
    <<"A", "B", "C", "D", "E", "F", "G", "H", "I", "J", "K", "L", "M", "N", "O", "P",
      "Q", "R", "S", "T", "U", "V", "W", "X", "Y", "Z", "a", "b", "c", "d", "e", "f",
      "g", "h", "i", "j", "k", "l", "m", "n", "o", "p", "q", "r", "s", "t", "u", "v",
      "w", "x", "y", "z", "0", "1", "2", "3", "4", "5", "6", "7", "8", "9", "+", "/">>

\* the character of a 6-bit value
B64Char(k) == B64Chars[k + 1]

\* base64.b64encode(file_data).decode('utf-8'): three bytes make four
\* characters, a last group of one or two bytes is padded with '='
RECURSIVE b64encode(_)
b64encode(b) ==
    IF Len(b) = 0 THEN << >>
    ELSE IF Len(b) = 1
    THEN LET n == b[1] * 65536
         IN <<B64Char(n \div 262144), B64Char((n \div 4096) % 64), "=", "=">>
    ELSE IF Len(b) = 2
    THEN LET n == b[1] * 65536 + b[2] * 256
         IN <<B64Char(n \div 262144), B64Char((n \div 4096) % 64),
              B64Char((n \div 64) % 64), "=">>
    ELSE LET n == b[1] * 65536 + b[2] * 256 + b[3]
         IN <<B64Char(n \div 262144), B64Char((n \div 4096) % 64),
              B64Char((n \div 64) % 64), B64Char(n % 64)>>
            \o b64encode(SubSeq(b, 4, Len(b)))

\* upload_to_object_storage(file_obj): the URL, None, or the exception that
\* upload_fileobj raised and the except clause does not name; pos is where
\* the upload call left the file's stream
upload_to_object_storage(u) ==
    IF ~u.storage THEN [kind |-> "none", pos |-> 0]
    ELSE LET pos == IF u.consumed <= Len(u.data) THEN u.consumed ELSE Len(u.data)
         IN IF u.outcome = "ok" THEN [kind |-> "url", pos |-> Len(u.data)]
            ELSE IF u.outcome \in {"BotoCoreError", "ClientError"}
            THEN [kind |-> "none", pos |-> pos]
            ELSE [kind |-> "raised", pos |-> pos]

\* file.seek(offset): the new position of the stream
seek(pos, offset) == offset

\* file.read(): the bytes from the stream's position to its end
read(data, pos) == SubSeq(data, pos + 1, Len(data))

\* process_uploaded_file(file_field): None, the storage URL, the data URI, or
\* the exception that came out of upload_to_object_storage
process_uploaded_file(u) ==
    LET none == [kind |-> "none", mime |-> "", payload |-> << >>]
        up == upload_to_object_storage(u)
    IN IF ~u.present THEN none
       ELSE IF u.filename # << >> /\ allowed_file(u.filename)
       THEN IF up.kind = "url" THEN [none EXCEPT !.kind = "url"]
            ELSE IF up.kind = "raised" THEN [none EXCEPT !.kind = "raised"]
            ELSE [kind |-> "data_uri", mime |-> "content_type",
                  payload |-> b64encode(read(u.data, seek(up.pos, 0)))]
       ELSE none

\* create_lesson up to "diagram": process_uploaded_file("intro_file")
ProcessUploadedFile ==
    /\ upload.pc = "posted"
    /\ upload' = [upload EXCEPT !.pc = "processed",
                                !.result = process_uploaded_file(upload)]
    /\ UNCHANGED <<users, plans, links, session, inflight, resp, signup, uow>>

\* create_lesson after the diagram: the call is outside the try block, so an
\* exception leaves the handler (a 500 response); otherwise the handler goes
\* on to save_plan_record
CreateLessonAfterUpload ==
    /\ upload.pc = "processed"
    /\ upload' = [upload EXCEPT
                    !.pc = IF upload.result.kind = "raised" THEN "error_500"
                           ELSE "saving"]
    /\ UNCHANGED <<users, plans, links, session, inflight, resp, signup, uow>>

(* --------------------------- specification ----------------------------- *)
Init ==
    /\ users = InitUsers
    /\ plans = [t \in Tables |-> << >>]
    /\ links = EmptyBag
    /\ session = NoUser
    /\ inflight = NoJob
    /\ resp = BaseResp("none", Null, NoUser)
    /\ signup = NoSignup
    /\ uow = NoUnit
    /\ upload = NoUpload

Next ==
    \/ \E u \in Usernames \cup {"nobody"}, p \in Passwords, dbok \in BOOLEAN :
          Login(u, p, dbok)
    \/ ContinueAsGuest
    \/ Logout
    \/ \E d1 \in BOOLEAN, d2 \in BOOLEAN : Dashboard(d1, d2)
    \/ \E r \in {"create_lesson_form", "create_unit_form"}, dbok \in BOOLEAN :
          CreateForm(r, dbok)
    \/ \E r \in {"create_lesson", "create_unit"}, sh \in ShareLists,
          doc \in PlanDocs, dbok \in BOOLEAN :
          CreatePlan(r, sh, doc, dbok)
    \/ \E dbok \in BOOLEAN : CreateLinks(dbok)
    \/ \E r \in {"view_lesson_plan", "view_unit_plan"},
          id \in 1..MaxPlans, dbok \in BOOLEAN :
          ViewPlan(r, id, dbok)

Spec == Init /\ [][Next]_vars

\* login, signup and the requests that write, with the database growing
NextAuth ==
    \/ \E u \in Usernames \cup {"nobody", ""}, p \in Passwords, dbok \in BOOLEAN :
          Login(u, p, dbok)
    \/ ContinueAsGuest
    \/ Logout
    \/ \E u \in SignupNames, r \in PostedRoles, dbok \in BOOLEAN : SignupCheck(u, r, dbok)
    \/ \E dbok \in BOOLEAN : SignupInsert(dbok)
    \/ \E u \in SignupNames, r \in PostedRoles, d1 \in BOOLEAN, d2 \in BOOLEAN :
          Signup(u, r, d1, d2)
    \/ \E r \in {"create_lesson", "create_unit"}, sh \in ShareListsAny,
          doc \in PlanDocs, dbok \in BOOLEAN :
          CreatePlanAuth(r, sh, doc, dbok)
    \/ \E dbok \in BOOLEAN : CreateLinks(dbok)

SpecAuth == Init /\ [][NextAuth]_vars

\* the units of work of one request, statement by statement
NextDb ==
    \/ \E ok \in BOOLEAN : GetDbConn(ok)
    \/ \E ok \in BOOLEAN : ConnCursor(ok)
    \/ \E o \in BodyOutcomes, w \in BOOLEAN : Body(o, w)
    \/ \E ok \in BOOLEAN : ConnCommit(ok)
    \/ \E ok \in BOOLEAN : ConnRollback(ok)
    \/ \E o \in CloseOutcomes : ConnClose(o)

SpecDb == Init /\ [][NextDb]_vars

\* a create-lesson form with a diagram has been posted
InitUpload ==
    /\ users = InitUsers
    /\ plans = [t \in Tables |-> << >>]
    /\ links = EmptyBag
    /\ session = IdentityOf(1)
    /\ inflight = NoJob
    /\ resp = BaseResp("none", Null, NoUser)
    /\ signup = NoSignup
    /\ uow = NoUnit
    /\ upload \in UploadInputs

NextUpload ==
    \/ ProcessUploadedFile
    \/ CreateLessonAfterUpload

SpecUpload == InitUpload /\ [][NextUpload]_vars


(* =============================== claims ================================ *)
ViewRoutes == {"view_lesson_plan", "view_unit_plan"}

CreateRoutes == {"create_lesson", "create_unit"}

\* the rows of a table, as fetch_plan_record returns them
Records(t) == {fetch_plan_record(t, i, TRUE) : i \in 1..Len(plans[t])}

ProfessorIds == {i \in UserIds : users[i].role = "professor"}

StudentIds == {i \in UserIds : users[i].role = "student-teacher"}

\* the plan row is complete: its creation request is past its last unit of work
Completed(t, R) == ~(inflight.table = t /\ inflight.plan_id = R.id)

\* the rule table of the access evaluator as the specification words it
RuleTable(R, I) ==
    IF R = NoRecord \/ I = NoUser \/ I.is_guest THEN FALSE
    ELSE IF I.role = "admin" THEN TRUE
    ELSE IF R.owner_id = I.id THEN TRUE
    ELSE IF I.role = "professor"
         THEN \/ I.id \in Range(R.shared_professors)
              \/ BagIn(<<I.id, R.owner_id>>, links)
         ELSE FALSE

\* C1: for every plan record and every identity, can_access_plan returns the
\* value of the rule table (deny absent/guest; allow admin; allow owner; a
\* professor iff on the share list or linked to the owner; otherwise deny)
CE_C1 ==
    \A t \in Tables : \A R \in Records(t) \cup {NoRecord} : \A I \in Identities :
        can_access_plan(R, I) = RuleTable(R, I)

\* C2: for every professor, list_plans_for_user lists exactly the plans the
\* professor owns, the plans sharing with the professor, and the plans of the
\* students linked to the professor
CE_C2 ==
    \A t \in Tables : \A p \in ProfessorIds :
        Range(list_plans_for_user(t, IdentityOf(p), TRUE)) =
            {R.id : R \in {Q \in Records(t) :
                \/ Q.owner_id = p
                \/ p \in Range(Q.shared_professors)
                \/ BagIn(<<p, Q.owner_id>>, links)}}

\* C3: with a working database, a plan record is listed by
\* list_plans_for_user for an identity exactly when can_access_plan grants
\* that identity the record
Thm_C3 ==
    \A t \in Tables : \A I \in Identities : \A R \in Records(t) :
        (R.id \in Range(list_plans_for_user(t, I, TRUE))) <=> can_access_plan(R, I)

\* a professor's dashboard lists a plan shared by somebody else and leaves
\* out another plan of the same table
Wit_C3 ==
    /\ resp.kind = "render_dashboard"
    /\ resp.user.role = "professor"
    /\ resp.lesson_rows = list_plans_for_user("lesson_plans", resp.user, TRUE)
    /\ \E R1 \in Records("lesson_plans"), R2 \in Records("lesson_plans") :
          /\ R1.id \in Range(resp.lesson_rows) /\ R1.owner_id # resp.user.id
          /\ R2.id \notin Range(resp.lesson_rows)

\* C4: once a student-teacher s has completed the creation of a plan naming
\* professor p (and the standing link it leaves is in the registry), p can
\* view every plan owned by s, and a professor s named in no plan can view
\* none of them
CE_C4 ==
    \A s \in StudentIds : \A p \in ProfessorIds :
        LET owned == UNION {{R \in Records(t) : R.owner_id = s} : t \in Tables}
            named == \E t \in Tables : \E R \in Records(t) :
                        /\ R.owner_id = s /\ p \in Range(R.shared_professors)
                        /\ Completed(t, R)
                        /\ is_professor_for_student(p, s)
            everNamed == \E R \in owned : p \in Range(R.shared_professors)
        IN /\ named => \A R \in owned : can_access_plan(R, IdentityOf(p))
           /\ ~everNamed => \A R \in owned : ~can_access_plan(R, IdentityOf(p))

\* C5: when a student-teacher's creation request has returned the redirect
\* to the plan view, the registry holds exactly one row (p, owner) for every
\* p of the request's share list
CE_C5 ==
    (resp.route \in CreateRoutes /\ resp.kind = "redirect_view"
        /\ resp.user.role = "student-teacher")
    => \A p \in Range(plans[TableOf(resp.route)][resp.plan_id].shared_professors) :
          CopiesIn(<<p, resp.user.id>>, links) = 1

\* C6: no state holds a plan record of a student-teacher whose share list
\* names p without the link (p, owner)
CE_C6 ==
    \A t \in Tables : \A R \in Records(t) :
        R.owner_id \in StudentIds =>
            \A p \in Range(R.shared_professors) : BagIn(<<p, R.owner_id>>, links)

\* C7: a view request of a logged-in non-guest for an existing plan that
\* can_access_plan denies is answered 403; for an absent plan it is answered
\* by a redirect to the dashboard with the not-found notice
CE_C7 ==
    (resp.route \in ViewRoutes /\ resp.ran = 1) =>
        /\ (resp.checked /\ ~resp.allowed) => resp.status = 403
        /\ ~resp.checked =>
              /\ resp.kind = "redirect_dashboard"
              /\ resp.flash \in {"Lesson plan not found.", "Unit plan not found."}

\* C8: plan_data is in a response only if that request fetched the record,
\* then evaluated can_access_plan for the session identity and got true, and
\* the identity is one the record grants
Thm_C8 ==
    /\ resp.data # "" => resp.kind = "render"
    /\ resp.kind = "render" =>
          /\ resp.route \in ViewRoutes
          /\ resp.fetched /\ resp.checked /\ resp.allowed
          /\ resp.plan_id \in 1..Len(plans[TableOf(resp.route)])
          /\ LET R == plans[TableOf(resp.route)][resp.plan_id]
             IN /\ resp.data = R.plan_data
                /\ \/ resp.user.role = "admin"
                   \/ resp.user.id = R.owner_id
                   \/ /\ resp.user.role = "professor"
                      /\ resp.user.id \in Range(R.shared_professors)

\* a professor is shown a plan of somebody else
Wit_C8 ==
    /\ resp.kind = "render" /\ resp.user.role = "professor"
    /\ plans[TableOf(resp.route)][resp.plan_id].owner_id # resp.user.id

\* C9: the outcome of login_required depends on the session identity and
\* allow_guest only: no identity, redirect to /login with next = the path;
\* a guest where guests are not allowed, redirect to /login with the guest
\* notice; otherwise the handler runs exactly once; on a redirect not at all
Thm_C9 ==
    resp.route \in Routes =>
        LET allow_guest == resp.route \in {"dashboard", "create_lesson_form",
                                           "create_unit_form"}
        IN IF resp.user = NoUser
           THEN /\ resp.kind = "redirect_login" /\ resp.ran = 0
                /\ resp.next = <<resp.route, resp.plan_id>>
                /\ resp.flash = "Please log in to continue."
           ELSE IF resp.user.is_guest /\ ~allow_guest
           THEN /\ resp.kind = "redirect_login" /\ resp.ran = 0
                /\ resp.next = <<resp.route, resp.plan_id>>
                /\ resp.flash = "Guests cannot save or retrieve records."
           ELSE resp.kind # "redirect_login" /\ resp.ran = 1

\* a guest asked for a plan and was sent to /login
Wit_C9 ==
    /\ resp.route = "view_unit_plan" /\ resp.user.is_guest
    /\ resp.kind = "redirect_login" /\ resp.ran = 0

\* C10: a guest's request to view or create a plan is redirected to /login
\* without fetch_plan_record, save_plan_record or can_access_plan being
\* called, and no plan row or link row is ever written for a guest
Thm_C10 ==
    /\ (resp.user.is_guest /\ resp.route \in ViewRoutes \cup CreateRoutes) =>
          /\ resp.kind = "redirect_login" /\ resp.ran = 0
          /\ ~resp.fetched /\ ~resp.saved /\ ~resp.checked
    /\ ~inflight.user.is_guest
    /\ \A t \in Tables : \A i \in 1..Len(plans[t]) : plans[t][i].owner_id # Null
    /\ \A l \in BagToSet(links) : l[2] # Null

\* a guest posted a creation form while plans exist, and was sent to /login
Wit_C10 ==
    /\ resp.route = "create_lesson" /\ resp.user.is_guest
    /\ resp.kind = "redirect_login"
    /\ session = GuestUser
    /\ PlanCount > 0


\* usernames typed into the login form
LoginNames == Usernames \cup {"nobody", "eve"}

\* C11: in login mode with non-empty fields, an unknown username and a known
\* username with a wrong password get the same response and leave the session
\* as it was; the session receives an identity only when the user exists and
\* the password verifies
Thm_C11 ==
    /\ \A u1 \in LoginNames \ Usernames : \A u2 \in Usernames :
       \A p1 \in Passwords : \A p2 \in Passwords :
          LET uid == get_user_by_username(u2, TRUE)
          IN ~verify_password(p2, users[uid].password_hash) =>
                /\ login_mode(u1, p1, TRUE, session) = login_mode(u2, p2, TRUE, session)
                /\ login_mode(u1, p1, TRUE, session).session = session
                /\ login_mode(u1, p1, TRUE, session).resp.kind = "render_login"
    /\ \A u \in LoginNames : \A p \in Passwords : \A dbok \in BOOLEAN :
          LET r == login_mode(u, p, dbok, session)
          IN (r.session # session \/ r.resp.kind = "redirect_dashboard") =>
                \E i \in UserIds :
                    /\ users[i].username = u
                    /\ users[i].password_hash = <<"bcrypt", p>>
                    /\ r.session = IdentityOf(i)

\* a login with bad credentials was refused while a signed-up user was logged in
Wit_C11 ==
    /\ resp = LoginPage(session, "Invalid credentials.")
    /\ session.username = "eve"

\* C12: a signup whose existence check found the username free and whose
\* username is stored at the moment of its insert (a concurrent signup
\* committed in between) ends in the 'Username already exists' error, adds
\* no user row and leaves the session without a new identity
CE_C12 ==
    [][(signup # NoSignup /\ signup' = NoSignup /\ signup.lookup = "absent"
          /\ \E i \in UserIds : users[i].username = signup.username)
       => /\ resp'.flash = "Username already exists."
          /\ users' = users
          /\ session' = session]_vars

\* the messages that tell the user to try again
TryAgain ==
    {"Database connection error. Please try again later.",
     "An error occurred. Please try again later.",
     "Unable to create account. Please try again later.",
     "Failed to save lesson plan. Please try again.",
     "Failed to save unit plan. Please try again.",
     "Error loading lesson plan. Please try again.",
     "Error loading unit plan. Please try again."}

\* C13: a login, a dashboard, a plan view or a plan creation that finds the
\* database unreachable answers with the generic try-again error
CE_C13 ==
    [][(\/ \E u \in Usernames, p \in Passwords : Login(u, p, FALSE)
        \/ /\ session # NoUser /\ ~session.is_guest
           /\ \/ \E r \in ViewRoutes, id \in 1..MaxPlans : ViewPlan(r, id, FALSE)
              \/ \E r \in CreateRoutes, sh \in ShareLists, doc \in PlanDocs :
                    CreatePlan(r, sh, doc, FALSE)
              \/ Dashboard(FALSE, FALSE))
       => resp'.flash \in TryAgain]_vars

\* C15: a student-teacher's creation request whose link inserts fail is
\* answered with the flashed error and the redirect to its form, and its plan
\* row is not kept
CE_C15 ==
    [][(inflight # NoJob /\ inflight' = NoJob
          /\ inflight.user.role = "student-teacher"
          /\ \E p \in Range(inflight.share) : ~BagIn(<<p, inflight.user.id>>, links'))
       => /\ resp'.kind = "redirect_form" /\ resp'.flash \in TryAgain
          /\ Len(plans'[inflight.table]) < inflight.plan_id]_vars

\* s is a prefix of t
IsPrefix(s, t) == Len(s) <= Len(t) /\ \A i \in 1..Len(s) : s[i] = t[i]

\* the 6-bit value of a base64 character
B64Index(c) == CHOOSE k \in 0..63 : B64Chars[k + 1] = c

\* the bytes a base64 text stands for
RECURSIVE b64decode(_)
b64decode(t) ==
    IF Len(t) < 4 THEN << >>
    ELSE LET pad == IF t[3] = "=" THEN 2 ELSE IF t[4] = "=" THEN 1 ELSE 0
             v(i) == IF t[i] = "=" THEN 0 ELSE B64Index(t[i])
             n == v(1) * 262144 + v(2) * 4096 + v(3) * 64 + v(4)
             three == <<n \div 65536, (n \div 256) % 256, n % 256>>
         IN SubSeq(three, 1, 3 - pad) \o b64decode(SubSeq(t, 5, Len(t)))

\* the posted diagram has a name with an allowed extension
DiagramPosted ==
    upload.present /\ upload.filename # << >> /\ allowed_file(upload.filename)

\* the object store did not take the file
StoreFailed == ~upload.storage \/ upload.outcome # "ok"

\* C16: once process_uploaded_file has run on a posted diagram with an
\* allowed extension, a store that failed in any way has led to the data URI
\* of the complete file bytes, the request does not end in an error, and
\* the storage URL is the result only when the upload succeeded
CE_C16 ==
    (upload.pc \in {"processed", "saving", "error_500"} /\ DiagramPosted) =>
       /\ StoreFailed =>
             /\ upload.result.kind = "data_uri"
             /\ b64decode(upload.result.payload) = upload.data
             /\ upload.pc # "error_500"
       /\ upload.result.kind = "url" => upload.storage /\ upload.outcome = "ok"

\* C17: every step keeps every plan row (id, owner, document, share list) as
\* it was, and a step that adds a row adds one row, with the next id, owned
\* by the non-guest user of the session that posted the creation form
Thm_C17 ==
    [][\A t \in Tables :
          /\ IsPrefix(plans[t], plans'[t])
          /\ \A i \in 1..Len(plans'[t]) : plans'[t][i].id = i
          /\ plans'[t] # plans[t] =>
                /\ Len(plans'[t]) = Len(plans[t]) + 1
                /\ session # NoUser /\ ~session.is_guest
                /\ plans'[t][Len(plans'[t])].owner_id = session.id
                /\ session.id \in UserIds]_vars

\* two plans of one owner exist side by side and one of them was just shown
Wit_C17 ==
    /\ Len(plans["lesson_plans"]) = 2
    /\ plans["lesson_plans"][1].owner_id = plans["lesson_plans"][2].owner_id
    /\ plans["lesson_plans"][1].shared_professors # plans["lesson_plans"][2].shared_professors
    /\ resp.kind = "render" /\ resp.plan_id = 1

UnitExited == uow.pc = "exit"

\* the body of the with-block ran to its end (or returned)
BodyCompleted == uow.body \in {"complete", "return"}

\* C14: while no close() has raised, a request holds at most one open
\* connection, a unit of work that has left db_cursor has had close() called
\* once on the connection it acquired and holds none open - after a body that
\* completed or raised and after a failed cursor creation, commit or
\* rollback - and a unit whose connect failed never opened or closed one
Thm_C14 ==
    /\ uow.closes <= uow.acquired
    /\ ~uow.close_raised => uow.open <= 1
    /\ UnitExited =>
          /\ uow.closes = uow.acquired
          /\ ~uow.close_raised => uow.open = 0
          /\ uow.cause = "connect" => uow.acquired = 0 /\ uow.closes = 0

\* the second unit of work of a request left db_cursor after its rollback
\* failed, with its connection closed
Wit_C14 ==
    /\ UnitExited /\ uow.units = 2
    /\ uow.exc = "rollback" /\ uow.acquired = 1 /\ uow.closes = 1 /\ uow.open = 0

\* C19 as stated: a unit whose body or commit raised has called rollback,
\* persisted nothing and hands that same exception to its caller; a unit
\* whose body completed and whose commit did not raise called commit once
\* and rollback never
CE_C19 ==
    UnitExited =>
       /\ uow.cause \in {"body", "commit"} =>
             uow.rollbacks = 1 /\ ~uow.persisted /\ uow.exc = uow.cause
       /\ (BodyCompleted /\ uow.cause = "") =>
             uow.commits = 1 /\ uow.rollbacks = 0

\* C19 (amended): commit is called, once, exactly when the body completed; a
\* unit whose body or commit raised has called rollback once, persisted
\* nothing and hands an exception to its caller: the one that was raised, or
\* rollback's own when rollback raised; rollback is called in no other case,
\* and a unit whose body completed and whose commit did not raise persisted
\* what it wrote and hands no exception to its caller
Thm_C19 ==
    /\ uow.pc \in {"rollback", "finally", "exit"} /\ uow.cause \notin {"connect", "cursor"}
          => (uow.commits = 1 <=> BodyCompleted)
    /\ uow.commits <= 1 /\ uow.rollbacks <= 1
    /\ uow.rollbacks = 1 => uow.cause \in {"body", "commit"}
    /\ UnitExited =>
          /\ uow.cause \in {"body", "commit"} =>
                /\ uow.rollbacks = 1 /\ ~uow.persisted
                /\ uow.exc \in {uow.cause, "rollback"}
          /\ (BodyCompleted /\ uow.cause = "") =>
                /\ uow.commits = 1 /\ uow.rollbacks = 0
                /\ uow.persisted = uow.wrote /\ uow.exc = ""
          /\ uow.cause \in {"connect", "cursor"} =>
                uow.commits = 0 /\ uow.rollbacks = 0 /\ ~uow.persisted

\* a unit whose body wrote and returned early, and whose commit then raised,
\* left db_cursor rolled back
Wit_C19 ==
    /\ UnitExited /\ uow.body = "return" /\ uow.wrote
    /\ uow.cause = "commit" /\ uow.rollbacks = 1 /\ uow.exc = "commit"

\* C20: every id on a plan's share list and every professor_id of the
\* registry is the id of a user whose role is professor
CE_C20 ==
    /\ \A t \in Tables : \A i \in 1..Len(plans[t]) :
          Range(plans[t][i].shared_professors) \subseteq ProfessorIds
    /\ \A l \in BagToSet(links) : l[1] \in ProfessorIds

\* the roles a stored user may have
UserRoles == {"student-teacher", "professor", "admin"}

\* s is no identity, the guest identity, or the identity of a stored user
WellFormedSession(s, rows) ==
    \/ s = NoUser
    \/ s = [id |-> Null, username |-> "guest", role |-> "guest", is_guest |-> TRUE]
    \/ /\ ~s.is_guest
       /\ s.id \in 1..Len(rows)
       /\ s.username = rows[s.id].username
       /\ s.role = rows[s.id].role
       /\ s.role \in UserRoles

\* C21: before and after every login, signup, continue-as-guest and logout
\* request the session holds no identity, the guest identity, or the id,
\* username and role of one stored user whose role is one of the three
\* roles; a login or signup that answers with the login page leaves the
\* session and the stored users as they were, a guest request leaves the
\* guest identity, and a logout leaves no identity, also when none was
\* present
Thm_C21 ==
    [][/\ WellFormedSession(session, users)
       /\ WellFormedSession(session', users')
       /\ resp'.kind = "render_login" => session' = session /\ users' = users
       /\ signup' # signup /\ signup' # NoSignup => session' = session
       /\ resp'.route = "continue_as_guest" => session' = GuestUser
       /\ resp'.route = "logout" => session' = NoUser]_vars

\* a user who signed up with a posted role that is no role holds the
\* default role, and a later signup under the same name was refused
Wit_C21 ==
    /\ session.username = "eve" /\ session.role = "student-teacher"
    /\ session.id = Len(InitUsers) + 1
    /\ resp.flash = "Username already exists."

====
